---- MODULE Spec2Model ----
(***************************************************************************)
(* A model of prf_media_downloader.py: the source adapters, gather_assets, *)
(* plan_path, download_to_path and download_assets.                        *)
(*                                                                         *)
(* Strings are sequences of symbols: a symbol is one character (" ", "_",  *)
(* ".", "-", "/") or a run of letters and digits ("coverr", "mp4").        *)
(* File contents are sequences of bytes; one streamed chunk is one byte.   *)
(***************************************************************************)
EXTENDS Integers, Sequences, FiniteSets, TLC

\* ------------------------------------------------------------------ bounds
MaxAssets == 2
MaxThreads == 2

\* ----------------------------------------------------------------- strings
UnsafeChars == {" ", "/", "!"}

\* one character outside [a-zA-Z0-9._-]
IsSafeChar(c) == c \notin UnsafeChars

RECURSIVE DropUnsafe(_)
DropUnsafe(s) ==
    IF s = <<>> \/ IsSafeChar(Head(s)) THEN s ELSE DropUnsafe(Tail(s))

\* re.sub(r"[^a-zA-Z0-9._-]+", "_", text): each maximal run of unsafe
\* characters becomes one underscore
RECURSIVE ReSub(_)
ReSub(s) ==
    IF s = <<>> THEN <<>>
    ELSE IF IsSafeChar(Head(s)) THEN <<Head(s)>> \o ReSub(Tail(s))
    ELSE <<"_">> \o ReSub(DropUnsafe(Tail(s)))

RECURSIVE LStrip(_)
LStrip(s) == IF s # <<>> /\ Head(s) = "_" THEN LStrip(Tail(s)) ELSE s

RECURSIVE RStrip(_)
RStrip(s) ==
    IF s # <<>> /\ s[Len(s)] = "_" THEN RStrip(SubSeq(s, 1, Len(s) - 1)) ELSE s

\* str.strip("_")
Strip(s) == RStrip(LStrip(s))

safe_filename(text, ext) ==
    LET stripped == Strip(ReSub(text))
        base == IF stripped = <<>> THEN <<"asset">> ELSE stripped
        e == IF ext # <<>> /\ Head(ext) = "." THEN ext ELSE <<".">> \o ext
    IN  base \o e

\* os.path.splitext on a path whose first symbol is its directory: the
\* extension starts at the last dot of the file name, unless only dots
\* precede it there
LastDot(p) ==
    LET dots == {i \in 2..Len(p) : p[i] = "."}
    IN  IF dots = {} THEN 0
        ELSE LET d == CHOOSE i \in dots : \A j \in dots : j <= i
             IN  IF \E j \in 2..(d - 1) : p[j] # "." THEN d ELSE 0

splitext(p) ==
    LET d == LastDot(p)
    IN  IF d = 0 THEN <<p, <<>>>>
        ELSE <<SubSeq(p, 1, d - 1), SubSeq(p, d, Len(p))>>

\* ----------------------------------------------------------------- hashing
RECURSIVE Sum(_)
Sum(b) == IF b = <<>> THEN 0 ELSE Head(b) + Sum(Tail(b))

\* hashlib.sha1(b).hexdigest(): hex10 is the digest's first 10 hex
\* characters, a window in which different contents can collide; the rest
\* of the digest tells all contents apart
Sha1(b) == [hex10 |-> <<"h0", "h1", "h2">>[(Sum(b) % 3) + 1], rest |-> b]

NoDigest == [hex10 |-> "", rest |-> <<>>]

\* ---------------------------------------------------------- Asset, planner
Asset(source, kind, title, url, ext) ==
    [source |-> source, kind |-> kind, title |-> title,
     download_url |-> url, ext |-> ext]

\* mutant of ext_for: the fallback is ".jpg" whatever the kind
ext_for_jpg(asset) == IF asset.ext # <<>> THEN asset.ext ELSE <<".", "jpg">>

ext_for(asset) ==
    IF asset.ext # <<>> THEN asset.ext
    ELSE IF asset.kind = "video" THEN <<".", "mp4">> ELSE <<".", "jpg">>

plan_path(asset) ==
    LET sub == IF asset.kind = "video" THEN "videos/" ELSE "images/"
        text == <<asset.source, "_">>
                  \o (IF asset.title # <<>> THEN asset.title ELSE <<asset.source>>)
    IN  <<sub>> \o safe_filename(text, ext_for(asset))

\* mutant of FinalPath: the final name is made of the hash and the
\* extension alone
FinalPathByHash(dst, dg) ==
    LET root_ext == splitext(dst)
    IN  <<Head(dst), dg.hex10>> \o root_ext[2]

\* mutant of TmpPath: the body is streamed to dst_path itself
TmpPathNoSuffix(dst) == dst

\* dst_path + ".part"
TmpPath(dst) == dst \o <<".part">>

\* f"{root}-{final_digest[:10]}{ext}"
FinalPath(dst, dg) ==
    LET root_ext == splitext(dst)
    IN  root_ext[1] \o <<"-", dg.hex10>> \o root_ext[2]

\* ---------------------------------------------------------------- adapters
FETCHERS_API == {"unsplash", "pexels", "pixabay"}
FETCHERS_SCRAPE == {"coverr", "mixkit", "videvo"}
ALL_SOURCES == FETCHERS_API \cup FETCHERS_SCRAPE

None == "<None>"

\* mutant of NoKey: `key is None`, which lets an empty key through
NoKeyIsNone(k) == k = None

\* `not key`: None and the empty string are both falsy
NoKey(k) == k \in {None, ""}

\* a or b or ... over a sequence of strings: the first non-empty one, the
\* last one if all are empty
RECURSIVE FirstTruthy(_)
FirstTruthy(xs) ==
    IF xs = <<>> THEN <<>>
    ELSE IF Head(xs) # <<>> \/ Len(xs) = 1 THEN Head(xs)
    ELSE FirstTruthy(Tail(xs))

\* f"{source}-{id}"
IdTitle(source, id) == <<source, "-", id>>

\* lines 218-233: one Asset per result that has a full or regular URL
RECURSIVE unsplash_records(_)
unsplash_records(items) ==
    IF items = <<>> THEN <<>>
    ELSE LET it == Head(items)
             full == FirstTruthy(it.urls)
             title == IF it.alt # <<>> THEN it.alt ELSE IdTitle("unsplash", it.id)
         IN  (IF full = <<>> THEN <<>>
              ELSE <<Asset("unsplash", "image", title, full, <<".", "jpg">>)>>)
             \o unsplash_records(Tail(items))

\* lines 250-262: one Asset per photo
RECURSIVE pexels_photo_records(_)
pexels_photo_records(items) ==
    IF items = <<>> THEN <<>>
    ELSE LET p == Head(items)
             title == IF p.alt # <<>> THEN p.alt ELSE IdTitle("pexels", p.id)
         IN  <<Asset("pexels", "image", title, FirstTruthy(p.urls), <<".", "jpg">>)>>
             \o pexels_photo_records(Tail(items))

\* mutant of KeyLess: the files are ordered by width alone
KeyLessByWidth(a, b) == a.width < b.width

\* the sort key of line 270: (quality == "hd", width or 0)
KeyLess(a, b) ==
    LET ha == IF a.quality = "hd" THEN 1 ELSE 0
        hb == IF b.quality = "hd" THEN 1 ELSE 0
    IN  ha < hb \/ (ha = hb /\ a.width < b.width)

\* sorted(files, key=..., reverse=True)[0]: the sort is stable, so among the
\* files of greatest key the first one of the list comes first
PexelsBest(files) ==
    LET top == {i \in DOMAIN files : \A j \in DOMAIN files : ~KeyLess(files[i], files[j])}
    IN  files[CHOOSE i \in top : \A j \in top : i <= j]

\* lines 268-285: one Asset per video that has files
RECURSIVE pexels_video_records(_)
pexels_video_records(items) ==
    IF items = <<>> THEN <<>>
    ELSE LET v == Head(items)
         IN  (IF v.video_files = <<>> THEN <<>>
              ELSE <<Asset("pexels", "video", IdTitle("pexels", v.id),
                           PexelsBest(v.video_files).link, <<".", "mp4">>)>>)
             \o pexels_video_records(Tail(items))

\* lines 301-312: one Asset per hit
RECURSIVE pixabay_image_records(_)
pixabay_image_records(items) ==
    IF items = <<>> THEN <<>>
    ELSE LET h == Head(items)
         IN  <<Asset("pixabay", "image", IdTitle("pixabay", h.id),
                     FirstTruthy(h.urls), <<".", "jpg">>)>>
             \o pixabay_image_records(Tail(items))

\* lines 318-333: videos.large or videos.medium or videos.small, each a
\* mapping that is absent or empty (<<>>) or holds a url; one Asset per hit
\* that has a variant
RECURSIVE pixabay_video_records(_)
pixabay_video_records(items) ==
    IF items = <<>> THEN <<>>
    ELSE LET h == Head(items)
             best == FirstTruthy(h.videos)
         IN  (IF best = <<>> THEN <<>>
              ELSE <<Asset("pixabay", "video", IdTitle("pixabay", h.id),
                           best[1], <<".", "mp4">>)>>)
             \o pixabay_video_records(Tail(items))

\* lines 352-375: the loop over the cards, with seen and the assets so far
RECURSIVE coverr_loop(_, _, _, _)
coverr_loop(cards, seen, out, count) ==
    IF cards = <<>> THEN out
    ELSE LET src == FirstTruthy(<<Head(cards).src, Head(cards).data_src>>)
         IN  IF src = <<>> \/ src \in seen
             THEN coverr_loop(Tail(cards), seen, out, count)
             ELSE LET out2 == Append(out, Asset("coverr", "video", <<"coverr-video">>,
                                                src, <<".", "mp4">>))
                  IN  IF Len(out2) >= count THEN out2
                      ELSE coverr_loop(Tail(cards), seen \cup {src}, out2, count)

\* list(dict.fromkeys(xs)): the first occurrence of each element, in order
RECURSIVE Dedupe(_)
Dedupe(xs) ==
    IF xs = <<>> THEN <<>>
    ELSE LET rest == Dedupe(SubSeq(xs, 1, Len(xs) - 1))
             x == xs[Len(xs)]
         IN  IF \E i \in DOMAIN rest : rest[i] = x THEN rest ELSE Append(rest, x)

\* xs[:n] for n >= 0
Take(xs, n) == SubSeq(xs, 1, IF n < Len(xs) THEN n ELSE Len(xs))

\* "https://site" + u when u starts with "/"
Absolute(site, u) == IF u # <<>> /\ Head(u) = "/" THEN <<site>> \o u ELSE u

\* ------------------------------------------------------------------- state
VARIABLES
    assets,     \* download_assets: the list of Assets it was given
    threads,    \* download_assets: max_workers of its pool
    pc,         \* per download task: where it is in one / download_to_path
    body,       \* per task: the chunks r.iter_content has yet to yield
    digest,     \* per task: the bytes fed to hashlib.sha1() so far
    fd,         \* per task: the inode its open file f writes to, 0 if none
    off,        \* per task: the write offset of f
    ret,        \* per task: the (ok, sha1) download_to_path returned
    fs,         \* the output directory: path -> inode, for the paths that exist
    data,       \* inode -> the bytes stored in it
    results,    \* download_assets: the outcomes appended so far
    dlpc,       \* download_assets: "idle", "running" or "returned"
    sources,    \* gather_assets: the source names it was given
    keys,       \* gather_assets: the API key of each structured source
    bs4,        \* BS4_AVAILABLE
    count,      \* gather_assets: items per source
    apc,        \* per adapter task: where it is in run_fetch / fetch_<source>,
                \* "unsubmitted" for a name run_app_logic has yet to look at
    acc,        \* per adapter task: its list `assets`
    todo,       \* per adapter task: the detail links yet to fetch
    nreq,       \* per adapter task: the SESSION.get calls it has issued
    failed,     \* per adapter task: its except clause logged a fetch error
    yielded,    \* gather_assets: the tasks as_completed has yielded, in order
    gassets,    \* gather_assets: its list `assets`
    gpc,        \* gather_assets: "idle", "running", "returned" or "raised"
    rpc,        \* run_app_logic: where the run is, "idle" if there is none
    mfile,      \* _meta/manifest.json under the output directory
    tries,      \* per download task, where the transport's attempts are
                \* told apart: the retries made for its request so far
    resp        \* per download task, there: what the latest attempt met

dvars == <<assets, threads, pc, body, digest, fd, off, ret, fs, data,
           results, dlpc>>

gvars == <<sources, keys, bs4, count, apc, acc, todo, nreq, failed, yielded,
           gassets, gpc>>

rvars == <<rpc, mfile>>

tvars == <<tries, resp>>

vars == <<dvars, gvars, rvars, tvars>>

Tasks == 1..Len(assets)

\* the response bodies a download URL can answer with: <<1, 2>> and <<2, 1>>
\* differ and share their digests' first 10 hex characters
Bodies == {<<1>>, <<1, 2>>, <<2, 1>>}

Paths == DOMAIN fs

\* the Assets download_assets is given here: Coverr clips (every Coverr record
\* has the title "coverr-video") and Unsplash photos. download_to_path reads
\* nothing of a record but its URL and its planned path, so a list is taken
\* to start with a Coverr clip: one that starts with the photo runs the same
\* way with the two working paths exchanged
CoverrClip == Asset("coverr", "video", <<"coverr-video">>, <<"u1">>, <<".", "mp4">>)
UnsplashPhoto == Asset("unsplash", "image", <<"a">>, <<"u2">>, <<".", "jpg">>)
DownloadInputs == {CoverrClip, UnsplashPhoto}

\* a photo whose title makes its working path the final path of
\* UnsplashPhoto for a content of hash prefix h1
NearPhoto == Asset("unsplash", "image", <<"a", "-", "h1">>, <<"u3">>, <<".", "jpg">>)

\* line 550: path = plan_path(base, a), for each Asset given
PlannedPath == [a \in DownloadInputs \cup {NearPhoto} |-> plan_path(a)]

dst_path(t) ==
    IF assets[t] \in DOMAIN PlannedPath THEN PlannedPath[assets[t]]
    ELSE plan_path(assets[t])
tmp_path(t) == TmpPath(dst_path(t))
\* line 173, from the digest of the bytes streamed
final_path(t) == FinalPath(dst_path(t), Sha1(digest[t]))

\* f.write(chunk) at offset o of a file holding d; a write past the end of
\* a file another writer truncated leaves a hole of zero bytes
RECURSIVE Zeros(_)
Zeros(n) == IF n <= 0 THEN <<>> ELSE <<0>> \o Zeros(n - 1)

WriteAt(d, o, c) ==
    IF o < Len(d) THEN [d EXCEPT ![o + 1] = c]
    ELSE d \o Zeros(o - Len(d)) \o <<c>>

\* os.remove(p) / the source side of os.replace on an existing path
Unlink(f, p) == [q \in (DOMAIN f) \ {p} |-> f[q]]

\* os.replace(src, dst): dst now names src's inode, src is gone
Rename(f, src, dst) ==
    [q \in ((DOMAIN f) \ {src}) \cup {dst} |-> IF q = dst THEN f[src] ELSE f[q]]

\* the inodes a path or an open file still refers to; the storage of any
\* other inode is freed
Live(f, h) == {f[p] : p \in DOMAIN f} \cup {h[t] : t \in DOMAIN h}

Reclaim(d, f, h) == [i \in DOMAIN d |-> IF i \in Live(f, h) THEN d[i] ELSE <<>>]

\* an exception raised inside the try of download_to_path: control goes to
\* line 181; the handler only logs the exception, and reads none of r,
\* digest and f again
Raise(t) ==
    /\ pc' = [pc EXCEPT ![t] = "except"]
    /\ body' = [body EXCEPT ![t] = <<>>]
    /\ digest' = [digest EXCEPT ![t] = <<>>]
    /\ off' = [off EXCEPT ![t] = 0]

\* return ok, sha1: the call's locals (r, f, digest) are gone
Return(t, ok, dg) ==
    /\ pc' = [pc EXCEPT ![t] = "done"]
    /\ ret' = [ret EXCEPT ![t] = [ok |-> ok, sha1 |-> dg]]
    /\ body' = [body EXCEPT ![t] = <<>>]
    /\ digest' = [digest EXCEPT ![t] = <<>>]
    /\ off' = [off EXCEPT ![t] = 0]

\* ---------------------------------------------------------- download tasks
\* the future of a task is finished: one returned ("done"), or raised out of
\* one ("raised"); the main thread has taken its result ("collected") or
\* caught and logged its exception ("dropped")
Finished == {"done", "raised", "collected", "dropped"}

\* mutant of Start: a worker is not given back when its task has finished
StartNoFree(t) ==
    /\ dlpc = "running"
    /\ pc[t] = "queued"
    /\ \A u \in Tasks : u < t => pc[u] # "queued"
    /\ Cardinality({u \in Tasks : pc[u] # "queued"}) < threads
    /\ pc' = [pc EXCEPT ![t] = "get"]
    /\ UNCHANGED <<assets, threads, body, digest, fd, off, ret, fs, data,
                   results, dlpc>>

\* a pool worker takes the next submitted task (line 564, FIFO work queue)
Start(t) ==
    /\ dlpc = "running"
    /\ pc[t] = "queued"
    /\ \A u \in Tasks : u < t => pc[u] # "queued"
    /\ Cardinality({u \in Tasks : pc[u] \notin {"queued"} \cup Finished}) < threads
    /\ \/ pc' = [pc EXCEPT ![t] = "get"]
       \/ pc' = [pc EXCEPT ![t] = "raised"]    \* os.makedirs raises in plan_path
    /\ UNCHANGED <<assets, threads, body, digest, fd, off, ret, fs, data,
                   results, dlpc>>

\* lines 163-164: SESSION.get(...) and r.raise_for_status()
Get(t) ==
    /\ pc[t] = "get"
    /\ \/ /\ assets[t].download_url # <<>>
          /\ \E b \in Bodies : body' = [body EXCEPT ![t] = b]
          /\ pc' = [pc EXCEPT ![t] = "open"]
          /\ UNCHANGED <<digest, off>>
       \/ Raise(t)    \* no URL, a connection error, a timeout or an error status
    /\ UNCHANGED <<assets, threads, fd, ret, fs, data, results, dlpc>>

\* line 165: open(tmp_path, "wb") creates the file, or truncates the one
\* that is there, whoever wrote it
Open(t) ==
    /\ pc[t] = "open"
    /\ \/ /\ IF tmp_path(t) \in Paths
             THEN /\ fd' = [fd EXCEPT ![t] = fs[tmp_path(t)]]
                  /\ data' = [data EXCEPT ![fs[tmp_path(t)]] = <<>>]
                  /\ fs' = fs
             ELSE /\ fd' = [fd EXCEPT ![t] = t]
                  /\ data' = [data EXCEPT ![t] = <<>>]
                  /\ fs' = (tmp_path(t) :> t) @@ fs
          /\ pc' = [pc EXCEPT ![t] = "stream"]
          /\ UNCHANGED <<body, digest, off>>
       \/ /\ Raise(t)    \* the open fails
          /\ UNCHANGED <<fd, fs, data>>
    /\ UNCHANGED <<assets, threads, ret, results, dlpc>>

\* lines 166-168: one turn of the loop: the next chunk is written and
\* hashed, or r.iter_content or f.write raises and the with-block closes f
Stream(t) ==
    /\ pc[t] = "stream"
    /\ body[t] # <<>>
    /\ \/ /\ data' = [data EXCEPT ![fd[t]] = WriteAt(@, off[t], Head(body[t]))]
          /\ off' = [off EXCEPT ![t] = @ + 1]
          /\ digest' = [digest EXCEPT ![t] = Append(@, Head(body[t]))]
          /\ body' = [body EXCEPT ![t] = Tail(@)]
          /\ UNCHANGED <<pc, fd>>
       \/ /\ Raise(t)    \* the stream is cut or the write fails
          /\ fd' = [fd EXCEPT ![t] = 0]
          /\ data' = Reclaim(data, fs, fd')
    /\ UNCHANGED <<assets, threads, ret, fs, results, dlpc>>

\* lines 169-175: the body is exhausted, f is closed, the final path is
\* computed and os.path.exists(final_path) is evaluated
Check(t) ==
    /\ pc[t] = "stream"
    /\ body[t] = <<>>
    /\ fd' = [fd EXCEPT ![t] = 0]
    /\ data' = Reclaim(data, fs, fd')
    /\ pc' = [pc EXCEPT ![t] = IF final_path(t) \in Paths THEN "discard" ELSE "replace"]
    /\ UNCHANGED <<assets, threads, body, digest, off, ret, fs, results, dlpc>>

\* mutant of Discard: the temporary file is not removed
DiscardKeepsTmp(t) ==
    /\ pc[t] = "discard"
    /\ Return(t, TRUE, Sha1(digest[t]))
    /\ UNCHANGED <<assets, threads, fd, fs, data, results, dlpc>>

\* lines 176-177: os.remove(tmp_path); return True, final_digest
Discard(t) ==
    /\ pc[t] = "discard"
    /\ IF tmp_path(t) \in Paths
       THEN /\ fs' = Unlink(fs, tmp_path(t))
            /\ data' = Reclaim(data, fs', fd)
            /\ Return(t, TRUE, Sha1(digest[t]))
       ELSE /\ Raise(t)    \* FileNotFoundError
            /\ UNCHANGED <<fs, data, ret>>
    /\ UNCHANGED <<assets, threads, fd, results, dlpc>>

\* lines 179-180: os.replace(tmp_path, final_path); return True, final_digest
Replace(t) ==
    /\ pc[t] = "replace"
    /\ IF tmp_path(t) \in Paths
       THEN /\ fs' = Rename(fs, tmp_path(t), final_path(t))
            /\ data' = Reclaim(data, fs', fd)
            /\ Return(t, TRUE, Sha1(digest[t]))
       ELSE /\ Raise(t)    \* FileNotFoundError
            /\ UNCHANGED <<fs, data, ret>>
    /\ UNCHANGED <<assets, threads, fd, results, dlpc>>

\* mutant of Except: the handler returns without looking for the ".part" file
ExceptNoCleanup(t) ==
    /\ pc[t] = "except"
    /\ Return(t, FALSE, NoDigest)
    /\ UNCHANGED <<assets, threads, fd, fs, data, results, dlpc>>

\* lines 181-184 and 189: log, then os.path.exists(tmp_path)
Except(t) ==
    /\ pc[t] = "except"
    /\ IF tmp_path(t) \in Paths
       THEN /\ pc' = [pc EXCEPT ![t] = "cleanup"]
            /\ UNCHANGED <<ret, body, digest, off>>
       ELSE Return(t, FALSE, NoDigest)
    /\ UNCHANGED <<assets, threads, fd, fs, data, results, dlpc>>

\* lines 185-189: os.remove(tmp_path), an OSError passed over
Cleanup(t) ==
    /\ pc[t] = "cleanup"
    /\ \/ /\ tmp_path(t) \in Paths
          /\ fs' = Unlink(fs, tmp_path(t))
       \/ fs' = fs
    /\ data' = Reclaim(data, fs', fd)
    /\ Return(t, FALSE, NoDigest)
    /\ UNCHANGED <<assets, threads, fd, results, dlpc>>

\* download_assets.one, lines 552-561, as results.append takes it (line 567)
Outcome(t) ==
    [ok |-> ret[t].ok, path |-> dst_path(t), sha1 |-> ret[t].sha1,
     source |-> assets[t].source, kind |-> assets[t].kind,
     title |-> assets[t].title]

\* lines 565-567: as_completed yields a finished future
Collect(t) ==
    /\ dlpc = "running"
    /\ \/ /\ pc[t] = "done"
          /\ pc' = [pc EXCEPT ![t] = "collected"]
          /\ results' = Append(results, Outcome(t))
       \/ /\ pc[t] = "raised"    \* lines 568-569
          /\ pc' = [pc EXCEPT ![t] = "dropped"]
          /\ results' = results
    /\ UNCHANGED <<assets, threads, body, digest, fd, off, ret, fs, data, dlpc>>

\* line 570
DownloadReturn ==
    /\ dlpc = "running"
    /\ \A t \in Tasks : pc[t] \in {"collected", "dropped"}
    /\ dlpc' = "returned"
    /\ UNCHANGED <<assets, threads, pc, body, digest, fd, off, ret, fs,
                   data, results>>

\* no gather_assets call is in progress
GatherIdle ==
    /\ sources = <<>>
    /\ keys = [n \in FETCHERS_API |-> None]
    /\ bs4 = TRUE
    /\ count = 0
    /\ apc = <<>>
    /\ acc = <<>>
    /\ todo = <<>>
    /\ nreq = <<>>
    /\ failed = <<>>
    /\ yielded = <<>>
    /\ gassets = <<>>
    /\ gpc = "idle"

\* the manifest file does not exist
NoManifest == [state |-> "absent", results |-> <<>>]

\* no run_app_logic call is in progress
RunIdle ==
    /\ rpc = "idle"
    /\ mfile = NoManifest

\* SESSION.get is taken as one step, its attempts not told apart
TransportFolded ==
    /\ tries = <<>>
    /\ resp = <<>>

\* lines 546-547 and 564: every record is submitted, nothing else has
\* happened yet
DownloadFrame ==
    /\ threads \in 1..MaxThreads
    /\ pc = [t \in Tasks |-> "queued"]
    /\ body = [t \in Tasks |-> <<>>]
    /\ digest = [t \in Tasks |-> <<>>]
    /\ fd = [t \in Tasks |-> 0]
    /\ off = [t \in Tasks |-> 0]
    /\ ret = [t \in Tasks |-> [ok |-> FALSE, sha1 |-> NoDigest]]
    /\ fs = <<>>
    /\ data = [t \in Tasks |-> <<>>]
    /\ results = <<>>
    /\ dlpc = "running"

\* download_assets(base, assets, threads)
DownloadCall ==
    /\ assets \in UNION {[1..n -> DownloadInputs] : n \in 1..MaxAssets}
    /\ assets[1] = CoverrClip
    /\ DownloadFrame

InitDownload ==
    /\ DownloadCall
    /\ GatherIdle
    /\ RunIdle
    /\ TransportFolded

NextDownload ==
    \/ \E t \in Tasks : Start(t) /\ UNCHANGED <<gvars, rvars, tvars>>
    \/ \E t \in Tasks : Get(t) /\ UNCHANGED <<gvars, rvars, tvars>>
    \/ \E t \in Tasks : Open(t) /\ UNCHANGED <<gvars, rvars, tvars>>
    \/ \E t \in Tasks : Stream(t) /\ UNCHANGED <<gvars, rvars, tvars>>
    \/ \E t \in Tasks : Check(t) /\ UNCHANGED <<gvars, rvars, tvars>>
    \/ \E t \in Tasks : Discard(t) /\ UNCHANGED <<gvars, rvars, tvars>>
    \/ \E t \in Tasks : Replace(t) /\ UNCHANGED <<gvars, rvars, tvars>>
    \/ \E t \in Tasks : Except(t) /\ UNCHANGED <<gvars, rvars, tvars>>
    \/ \E t \in Tasks : Cleanup(t) /\ UNCHANGED <<gvars, rvars, tvars>>
    \/ \E t \in Tasks : Collect(t) /\ UNCHANGED <<gvars, rvars, tvars>>
    \/ DownloadReturn /\ UNCHANGED <<gvars, rvars, tvars>>

SpecDownload == InitDownload /\ [][NextDownload]_vars

\* download_assets over photos whose names lie close together
InitNear ==
    /\ assets \in UNION {[1..n -> {UnsplashPhoto, NearPhoto}] : n \in 1..MaxAssets}
    /\ assets[1] = UnsplashPhoto
    /\ DownloadFrame
    /\ GatherIdle
    /\ RunIdle
    /\ TransportFolded

SpecNear == InitNear /\ [][NextDownload]_vars

\* --------------------------------------------- the transport's retry policy
\* make_session, lines 113-118: Retry(total=5, status_forcelist=[...],
\* allowed_methods=["GET", "HEAD"]); every request here is a GET
RetryTotal == 5
status_forcelist == {429, 500, 502, 503, 504}

\* what an attempt meets: a response status, or no response at all
\* (the connection is refused or reset, or the read times out)
NoAnswer == -1
ConnectionFailure == 0
Answers == {ConnectionFailure, 200, 404, 429, 503}

\* the failures Retry counts against total and tries again
Retryable(a) == a = ConnectionFailure \/ a \in status_forcelist

\* line 163, one attempt of SESSION.get: the request goes out and meets an
\* answer; without a URL nothing is sent and the call raises
Send(t) ==
    /\ pc[t] = "get"
    /\ resp[t] = NoAnswer
    /\ IF assets[t].download_url = <<>>
       THEN /\ Raise(t)
            /\ UNCHANGED tvars
       ELSE /\ \E a \in Answers : resp' = [resp EXCEPT ![t] = a]
            /\ UNCHANGED <<pc, body, digest, off, tries>>
    /\ UNCHANGED <<assets, threads, fd, ret, fs, data, results, dlpc>>

\* line 163, inside SESSION.get: the attempt met a failure Retry covers; it
\* is tried again while the budget lasts, then SESSION.get raises
Retry(t) ==
    /\ pc[t] = "get"
    /\ Retryable(resp[t])
    /\ IF tries[t] < RetryTotal
       THEN /\ tries' = [tries EXCEPT ![t] = @ + 1]
            /\ resp' = [resp EXCEPT ![t] = NoAnswer]
            /\ UNCHANGED <<pc, body, digest, off>>
       ELSE /\ Raise(t)
            /\ UNCHANGED tvars
    /\ UNCHANGED <<assets, threads, fd, ret, fs, data, results, dlpc>>

\* line 164: SESSION.get returned a response, whose status
\* r.raise_for_status() looks at
raise_for_status(t) ==
    /\ pc[t] = "get"
    /\ resp[t] # NoAnswer
    /\ ~Retryable(resp[t])
    /\ IF resp[t] >= 400
       THEN Raise(t)
       ELSE /\ \E b \in Bodies : body' = [body EXCEPT ![t] = b]
            /\ pc' = [pc EXCEPT ![t] = "open"]
            /\ UNCHANGED <<digest, off>>
    /\ UNCHANGED <<assets, threads, fd, ret, fs, data, results, dlpc, tvars>>

\* lines 166-168 with the cause of a failure told apart: r.iter_content
\* raises because the connection is reset or the read times out, or
\* f.write raises
StreamBody(t) ==
    /\ Stream(t)
    /\ tries' = tries
    /\ \/ resp' = resp
       \/ /\ pc'[t] = "except"
          /\ resp' = [resp EXCEPT ![t] = ConnectionFailure]

\* download_assets with the attempts of each request told apart
InitTransport ==
    /\ DownloadCall
    /\ GatherIdle
    /\ RunIdle
    /\ tries = [t \in Tasks |-> 0]
    /\ resp = [t \in Tasks |-> NoAnswer]

NextTransport ==
    \/ \E t \in Tasks : Start(t) /\ UNCHANGED <<gvars, rvars, tvars>>
    \/ \E t \in Tasks : Send(t) /\ UNCHANGED <<gvars, rvars>>
    \/ \E t \in Tasks : Retry(t) /\ UNCHANGED <<gvars, rvars>>
    \/ \E t \in Tasks : raise_for_status(t) /\ UNCHANGED <<gvars, rvars>>
    \/ \E t \in Tasks : Open(t) /\ UNCHANGED <<gvars, rvars, tvars>>
    \/ \E t \in Tasks : StreamBody(t) /\ UNCHANGED <<gvars, rvars>>
    \/ \E t \in Tasks : Check(t) /\ UNCHANGED <<gvars, rvars, tvars>>
    \/ \E t \in Tasks : Discard(t) /\ UNCHANGED <<gvars, rvars, tvars>>
    \/ \E t \in Tasks : Replace(t) /\ UNCHANGED <<gvars, rvars, tvars>>
    \/ \E t \in Tasks : Except(t) /\ UNCHANGED <<gvars, rvars, tvars>>
    \/ \E t \in Tasks : Cleanup(t) /\ UNCHANGED <<gvars, rvars, tvars>>
    \/ \E t \in Tasks : Collect(t) /\ UNCHANGED <<gvars, rvars, tvars>>
    \/ DownloadReturn /\ UNCHANGED <<gvars, rvars, tvars>>

SpecTransport == InitTransport /\ [][NextTransport]_vars

\* ------------------------------------------------- download_to_path claims
Returned == {"done", "collected"}

IsTmp(p) == p[Len(p)] = ".part"

FinalFiles == {p \in Paths : ~IsTmp(p)}

\* the final path of a call that returned (True, sha1)
ret_final(t) == FinalPath(dst_path(t), ret[t].sha1)

\* task t takes a step
Steps(t) ==
    <<pc[t], body[t], fd[t]>>' # <<pc[t], body[t], fd[t]>>

\* task t has streamed its whole body and is at line 175 or beyond
Streamed(t) == pc[t] \in {"discard", "replace"}

\* C1 (as claimed): every file at a final path holds the complete bytes of
\* one finished download, in every state of every interleaving
C1_NoPartialFinal ==
    \A p \in FinalFiles :
        \E t \in Tasks : /\ pc[t] \in Returned
                         /\ ret[t].ok
                         /\ Sha1(data[fs[p]]) = ret[t].sha1

\* u holds, or has delivered, the same bytes as t for the same working path
SameFetch(t, u) ==
    /\ t # u
    /\ dst_path(t) = dst_path(u)
    /\ \/ Streamed(u) /\ digest[u] = digest[t]
       \/ pc[u] \in Returned /\ ret[u].ok /\ ret[u].sha1 = Sha1(digest[t])

\* C2 (as claimed): of two tasks that race to the same final path with the
\* same bytes, neither ends in an error, and once both have returned only
\* the final file is left
C2_RaceBothSucceed ==
    [][\A t \in Tasks :
          (Streamed(t) /\ Steps(t) /\ \E u \in Tasks : SameFetch(t, u))
              => /\ pc'[t] = "done"
                 /\ ret'[t].ok
                 /\ ret_final(t)' \in Paths'
                 /\ tmp_path(t) \notin Paths']_vars

\* C4 (as claimed): at the return of (True, h) a file exists at the final
\* path and its content hashes to h
C4_SuccessFileHashes ==
    [][\A t \in Tasks :
          (pc[t] # "done" /\ pc'[t] = "done" /\ ret'[t].ok)
              => /\ ret_final(t)' \in Paths'
                 /\ Sha1(data'[fs'[ret_final(t)']]) = ret'[t].sha1]_vars

\* C5: with one worker the calls run in sequence; a call that streamed the
\* same bytes for the same working path as an earlier successful call
\* returns success with the same hash, hence the same final path, leaves
\* the existing final file in place and leaves no temporary file
C5_Idempotent ==
    [][threads = 1 =>
        \A t \in Tasks :
          (Streamed(t) /\ Steps(t) /\ \E u \in Tasks : SameFetch(t, u))
              => /\ pc'[t] = "done"
                 /\ ret'[t].ok
                 /\ \A u \in Tasks : SameFetch(t, u) =>
                        /\ ret'[t].sha1 = ret[u].sha1
                        /\ ret_final(t)' = ret_final(u)
                        /\ ret_final(u) \in Paths
                        /\ ret_final(u) \in Paths'
                        /\ fs'[ret_final(u)] = fs[ret_final(u)]
                 /\ tmp_path(t) \notin Paths']_vars

C5_Witness ==
    /\ threads = 1
    /\ \E t, u \in Tasks :
          /\ t # u
          /\ pc[t] \in Returned /\ pc[u] \in Returned
          /\ ret[t].ok /\ ret[u].ok
          /\ dst_path(t) = dst_path(u)
          /\ ret[t].sha1 = ret[u].sha1
          /\ ret_final(t) \in Paths
          /\ tmp_path(t) \notin Paths

\* C6: a step of a fetch that does not return success (so every step of a
\* fetch that fails or is cut short) creates no file at a final path; the
\* only path it can create is its own ".part" file
C6_FailedFetchNoFinal ==
    [][\A t \in Tasks :
          (Steps(t) /\ ~(pc'[t] = "done" /\ ret'[t].ok))
              => /\ FinalFiles' = FinalFiles
                 /\ Paths' \subseteq Paths \cup {tmp_path(t)}]_vars

\* a fetch has failed, its ".part" file is still there, and nothing else is
C6_Witness ==
    \E t \in Tasks :
        /\ pc[t] \in Returned
        /\ ~ret[t].ok
        /\ Paths = {tmp_path(t)}

\* -------------------------------------------------- download_assets claims
\* C12 (as claimed): download_assets returns one outcome per record given
C12_OneOutcomePerRecord ==
    dlpc = "returned" => Len(results) = Len(assets)

\* C13 (as claimed): in every outcome the hash and the path are there exactly
\* when ok is true, and on success the path is the final path of the call,
\* where a file exists
C13_OutcomeFields ==
    \A i \in DOMAIN results :
        LET r == results[i]
        IN  /\ r.ok <=> r.sha1 # NoDigest
            /\ r.ok <=> r.path # <<>>
            /\ r.ok => /\ r.path \in Paths
                       /\ \E t \in Tasks : /\ pc[t] = "collected"
                                            /\ r.sha1 = ret[t].sha1
                                            /\ r.path = ret_final(t)

\* task u has failed, or is on its way through the except clause
Failing(u) ==
    \/ pc[u] \in {"except", "cleanup", "raised", "dropped"}
    \/ pc[u] \in Returned /\ ~ret[u].ok

\* C14 (as claimed): a task that has streamed its whole body succeeds, when
\* the other tasks that share its working path have failed or not started:
\* what a failing task does takes no sibling down with it
C14_FailureContained ==
    [][\A t \in Tasks :
          (/\ Streamed(t)
           /\ Steps(t)
           /\ \E u \in Tasks \ {t} : dst_path(u) = dst_path(t) /\ Failing(u)
           /\ \A u \in Tasks \ {t} :
                  dst_path(u) = dst_path(t) => Failing(u) \/ pc[u] = "queued")
              => pc'[t] = "done" /\ ret'[t].ok]_vars

\* C15: a call that reports failure returns (False, None), and its ".part"
\* file is gone when it returns, unless the os.remove of line 186 removed
\* nothing (it raised, and the OSError was passed over)
C15_FailureCleansUp ==
    [][\A t \in Tasks :
          (pc[t] \in {"except", "cleanup"} /\ Steps(t))
              => \/ pc[t] = "except" /\ pc'[t] = "cleanup" /\ tmp_path(t) \in Paths
                 \/ /\ pc'[t] = "done"
                    /\ ret'[t] = [ok |-> FALSE, sha1 |-> NoDigest]
                    /\ \/ tmp_path(t) \notin Paths'
                       \/ pc[t] = "cleanup" /\ fs' = fs]_vars

\* the first task failed after the second one had opened their ".part" file,
\* and its cleanup removed the file the second one still writes to
C15_Witness ==
    /\ Len(assets) = 2
    /\ pc[1] = "done" /\ ~ret[1].ok
    /\ pc[2] = "stream" /\ fd[2] # 0
    /\ tmp_path(2) \notin Paths

\* C20 (as claimed): once download_assets has returned, no two final files
\* hold the same bytes
C20_NoDuplicateContent ==
    dlpc = "returned" =>
        \A p, q \in FinalFiles : p # q => data[fs[p]] # data[fs[q]]

\* C25 (as claimed): a file that exists at a final path stays there with its
\* content, whatever step any call takes next
C25_FinalFileFrozen ==
    [][\A p \in FinalFiles :
          /\ p \in Paths'
          /\ data'[fs'[p]] = data[fs[p]]]_vars

\* the call of t has computed its final path (line 173), or has returned
\* success for it
HasTarget(t) == Streamed(t) \/ (pc[t] \in Returned /\ ret[t].ok)

TargetDigest(t) == IF Streamed(t) THEN Sha1(digest[t]) ELSE ret[t].sha1

\* the first 10 hex characters a digest can start with
Hex10s == {"h0", "h1", "h2"}

\* line 173 for each record given and each such start of the digest
FinalOf ==
    [a \in DOMAIN PlannedPath |->
        [h \in Hex10s |-> FinalPath(PlannedPath[a], [hex10 |-> h, rest |-> <<>>])]]

Target(t) == FinalOf[assets[t]][TargetDigest(t).hex10]

\* two calls have the same final path only if they have the same working
\* path and hashes with the same first 10 hex characters
TargetsApart ==
    \A t \in Tasks : HasTarget(t) => \A u \in Tasks :
        (u < t /\ HasTarget(u) /\ Target(t) = Target(u))
            => /\ dst_path(t) = dst_path(u)
               /\ TargetDigest(t).hex10 = TargetDigest(u).hex10

\* the paths a call for u can use: its temporary path and its final path
\* for each hash prefix
Files ==
    [a \in DOMAIN PlannedPath |->
        {TmpPath(PlannedPath[a])} \cup {FinalOf[a][h] : h \in Hex10s}]

FilesOf(u) == Files[assets[u]]

\* records with different working paths have no path in common
FilesApart ==
    \A a, b \in DOMAIN PlannedPath :
        PlannedPath[a] # PlannedPath[b] => Files[a] \cap Files[b] = {}

\* path p is the same file with the same bytes before and after the step
Untouched(p) ==
    /\ p \in Paths <=> p \in Paths'
    /\ p \in Paths => fs'[p] = fs[p] /\ data'[fs[p]] = data[fs[p]]

\* C26: calls reach the same final path only from the same working path
\* with hashes that agree on the first 10 hex characters, and a step of a
\* call leaves the temporary and final files of every call with another
\* working path as they are; nor does it use a path of theirs
C26_PathsApart ==
    /\ []TargetsApart
    /\ [][/\ FilesApart
          /\ \A t \in Tasks : Steps(t) => \A u \in Tasks :
                dst_path(u) # dst_path(t) => \A p \in FilesOf(u) : Untouched(p)
         ]_vars

\* two calls with working paths that lie close together, the final path of
\* the one being the working path of the other, have both put their file
\* in place
C26_Witness ==
    /\ Len(assets) = 2
    /\ dst_path(1) # dst_path(2)
    /\ pc[1] = "done" /\ ret[1].ok /\ ret[1].sha1.hex10 = "h1"
    /\ pc[2] = "done" /\ ret[2].ok
    /\ ret_final(1) \in Paths /\ ret_final(2) \in Paths
    /\ ret_final(1) = dst_path(2)

\* ----------------------------------------------------------------- planner
\* the records plan_path is tried on: every kind, with no extension, with
\* one, and with one that lacks its dot
PlanKinds == {"video", "image", "audio"}
PlanExts == {<<>>, <<".", "webm">>, <<"png">>}
PlanInputs ==
    {Asset("pexels", k, <<"a", " ", "b">>, <<"u1">>, e) : k \in PlanKinds, e \in PlanExts}

\* download_assets over such records, as far as line 550 of each task:
\* path = plan_path(base, a)
InitPlan ==
    /\ assets \in UNION {[1..n -> PlanInputs] : n \in 1..MaxAssets}
    /\ DownloadFrame
    /\ GatherIdle
    /\ RunIdle
    /\ TransportFolded

NextPlan == \E t \in Tasks : Start(t) /\ UNCHANGED <<gvars, rvars, tvars>>

SpecPlan == InitPlan /\ [][NextPlan]_vars

\* p ends with the symbols of e
EndsWith(p, e) ==
    Len(e) <= Len(p) /\ SubSeq(p, Len(p) - Len(e) + 1, Len(p)) = e

\* C24: the path planned for a record lies under videos/ if its kind is
\* video and under images/ otherwise; with an empty ext it ends in ".mp4"
\* for a video and in ".jpg" otherwise, and a non-empty ext ends the path
\* as it is
C24_ExtensionByKind ==
    \A t \in Tasks : pc[t] # "queued" =>
        LET a == assets[t]
            p == dst_path(t)
        IN  /\ Head(p) = (IF a.kind = "video" THEN "videos/" ELSE "images/")
            /\ a.ext = <<>> =>
                  EndsWith(p, IF a.kind = "video" THEN <<".", "mp4">> ELSE <<".", "jpg">>)
            /\ a.ext # <<>> => EndsWith(p, a.ext)

\* paths were planned for a video and for a record of another kind, both
\* without an extension
C24_Witness ==
    \E t, u \in Tasks :
        /\ pc[t] = "get" /\ assets[t].kind = "video" /\ assets[t].ext = <<>>
        /\ pc[u] = "get" /\ assets[u].kind = "audio" /\ assets[u].ext = <<>>

\* ------------------------------------------------------- transport claims
\* a failure the spec calls transient: one of the five statuses, or a
\* connection failure
TransientFailure(a) == a \in {ConnectionFailure, 429, 500, 502, 503, 504}

\* task t takes the step
Acts(t) == pc'[t] # pc[t] \/ tries'[t] # tries[t] \/ resp'[t] # resp[t]

\* the attempt of t met a transient failure and the transport reacts: it
\* tries again while fewer than 5 retries were made, and fails t otherwise
RetriedToBudget(t) ==
    (pc[t] = "get" /\ TransientFailure(resp[t]) /\ Acts(t)) =>
        \/ tries[t] < 5 /\ pc'[t] = "get" /\ tries'[t] = tries[t] + 1
        \/ tries[t] = 5 /\ pc'[t] = "except" /\ tries'[t] = tries[t]

\* the attempt of t met another status of 400 or above: t fails in its next
\* step, with no further attempt
PermanentFailsAtOnce(t) ==
    (pc[t] = "get" /\ resp[t] >= 400 /\ ~TransientFailure(resp[t]) /\ Acts(t)) =>
        pc'[t] = "except" /\ tries'[t] = tries[t]

\* a connection failure that hits the request of t does not by itself fail
\* t: it is left to the retries
FailureLeftToRetries(t) ==
    (resp'[t] = ConnectionFailure /\ resp[t] # ConnectionFailure) =>
        pc'[t] # "except"

\* C23 (as claimed): a request that meets a transient status or a transient
\* connection failure is retried up to 5 retries and fails its task, and no
\* other, once they are used up; a permanent failure fails the task at once
C23_RetryPolicy ==
    [][\A t \in Tasks :
          /\ RetriedToBudget(t)
          /\ PermanentFailsAtOnce(t)
          /\ FailureLeftToRetries(t)
          /\ Acts(t) => \A u \in Tasks \ {t} : pc'[u] = pc[u] /\ ret'[u] = ret[u]
      ]_vars

\* ----------------------------------------------------------- gather_assets
MaxSources == 2
MaxCount == 2

SourceNames == ALL_SOURCES \cup {"bogus"}

GTasks == 1..Len(sources)

\* what the remote catalogs answer with
P1 == [id |-> "1", alt |-> <<"a", " ">>, urls |-> << <<>>, <<"u1">> >>]
P2 == [id |-> "2", alt |-> <<>>, urls |-> << <<>>, <<>> >>]
P3 == [id |-> "1", alt |-> <<"a">>, urls |-> << <<"u2">>, <<"u1">> >>]
PhotoResponses == {<<>>, <<P1, P2>>, <<P1, P3>>}

F1 == [quality |-> "sd", width |-> 2, link |-> <<"u3">>]
F2 == [quality |-> "hd", width |-> 1, link |-> <<"u4">>]
F3 == [quality |-> "hd", width |-> 1, link |-> <<>>]
F4 == [quality |-> "hd", width |-> 2, link |-> <<"u10">>]
PexelsVideoResponses ==
    {<<>>, <<[id |-> "1", video_files |-> <<F1, F2, F4>>], [id |-> "2", video_files |-> <<>>]>>,
     <<[id |-> "1", video_files |-> <<F3, F1>>]>>}

PixabayVideoResponses ==
    {<<>>, <<[id |-> "1", videos |-> << <<>>, << <<"u5">> >>, << <<"u6">> >> >>],
             [id |-> "2", videos |-> << <<>>, <<>>, <<>> >>]>>,
     <<[id |-> "1", videos |-> << << <<>> >>, <<>>, <<>> >>]>>}

E1 == [src |-> <<"u7">>, data_src |-> <<>>]
E2 == [src |-> <<>>, data_src |-> <<"u8">>]
E3 == [src |-> <<>>, data_src |-> <<>>]
CoverrPages == {<<>>, <<E3, E1, E1, E2>>}

MixkitHrefs == {"/free-stock-video/1/", "/free-stock-video/2/"}
MixkitPages == {<<>>, <<"/about", "/free-stock-video/1/", "/free-stock-video/1/",
                       "/free-stock-video/2/">>}
VidevoHrefs == {"/video/1", "/video/2"}
VidevoPages == {<<>>, <<"/video/1", "/video/1", "/video/2">>}

\* a detail page: the download link or video source found on it, if any
DetailPages == {<<>>, <<"u9">>, <<"/", "d1">>}

\* line 519: min(len(sources), 6) or 1
max_workers ==
    LET n == IF Len(sources) < 6 THEN Len(sources) ELSE 6
    IN  IF n = 0 THEN 1 ELSE n

\* a worker of the search pool is free to take a submitted task
FreeWorker ==
    /\ gpc = "running"
    /\ Cardinality({s \in GTasks : apc[s] \in {"videos", "detail"}}) < max_workers

\* `return assets` of an adapter
AdapterReturn(s, out) ==
    /\ apc' = [apc EXCEPT ![s] = "returned"]
    /\ acc' = [acc EXCEPT ![s] = out]
    /\ todo' = [todo EXCEPT ![s] = <<>>]

\* a SESSION.get call
Request(s) == nreq' = [nreq EXCEPT ![s] = @ + 1]

\* the adapter's except clause: log(f"... fetch error: {e}")
LogError(s) == failed' = [failed EXCEPT ![s] = TRUE]

\* lines 206-236
fetch_unsplash(s) ==
    /\ apc[s] = "queued"
    /\ sources[s] = "unsplash"
    /\ FreeWorker
    /\ IF NoKey(keys["unsplash"])
       THEN /\ AdapterReturn(s, <<>>)
            /\ UNCHANGED <<nreq, failed>>
       ELSE /\ Request(s)
            /\ \/ /\ \E r \in PhotoResponses : AdapterReturn(s, unsplash_records(r))
                  /\ UNCHANGED failed
               \/ /\ LogError(s)
                  /\ AdapterReturn(s, <<>>)
    /\ UNCHANGED <<sources, keys, bs4, count, yielded, gassets, gpc>>

\* a structured adapter with an image search and a video search
TwoSearches(s, name, images, videos) ==
    /\ sources[s] = name
    /\ \/ /\ apc[s] = "queued"
          /\ FreeWorker
          /\ IF NoKey(keys[name])
             THEN /\ AdapterReturn(s, <<>>)
                  /\ UNCHANGED <<nreq, failed>>
             ELSE /\ Request(s)
                  /\ \/ /\ \E r \in PhotoResponses :
                              acc' = [acc EXCEPT ![s] = images[r]]
                        /\ apc' = [apc EXCEPT ![s] = "videos"]
                        /\ UNCHANGED <<todo, failed>>
                     \/ /\ LogError(s)
                        /\ AdapterReturn(s, <<>>)
       \/ /\ apc[s] = "videos"
          /\ Request(s)
          /\ \/ /\ \E r \in DOMAIN videos : AdapterReturn(s, acc[s] \o videos[r])
                /\ UNCHANGED failed
             \/ /\ LogError(s)
                /\ AdapterReturn(s, acc[s])
    /\ UNCHANGED <<sources, keys, bs4, count, yielded, gassets, gpc>>

\* lines 238-288
fetch_pexels(s) ==
    TwoSearches(s, "pexels",
                [r \in PhotoResponses |-> pexels_photo_records(r)],
                [r \in PexelsVideoResponses |-> pexels_video_records(r)])

\* lines 290-336
fetch_pixabay(s) ==
    TwoSearches(s, "pixabay",
                [r \in PhotoResponses |-> pixabay_image_records(r)],
                [r \in PixabayVideoResponses |-> pixabay_video_records(r)])

\* lines 338-340, called before the try of each scraped adapter: the
\* RuntimeError leaves the adapter
bs4_required(s) ==
    /\ ~bs4
    /\ apc' = [apc EXCEPT ![s] = "raised"]
    /\ UNCHANGED <<acc, todo, nreq, failed>>

\* lines 342-378
fetch_coverr(s) ==
    /\ apc[s] = "queued"
    /\ sources[s] = "coverr"
    /\ FreeWorker
    /\ \/ bs4_required(s)
       \/ /\ bs4
          /\ Request(s)
          /\ \/ /\ \E page \in CoverrPages :
                      AdapterReturn(s, coverr_loop(page, {}, <<>>, count))
                /\ UNCHANGED failed
             \/ /\ LogError(s)
                /\ AdapterReturn(s, <<>>)
    /\ UNCHANGED <<sources, keys, bs4, count, yielded, gassets, gpc>>

\* the links of a search page: lines 390-395, lines 442-447
RECURSIVE Links(_, _, _)
Links(page, hrefs, site) ==
    IF page = <<>> THEN <<>>
    ELSE (IF Head(page) \in hrefs THEN << <<site, Head(page)>> >> ELSE <<>>)
         \o Links(Tail(page), hrefs, site)

\* a scraped adapter that fetches a search page, then one detail page per
\* link; breaks: the loop ends once len(assets) >= count (line 479)
DetailSearch(s, name, title, pages, hrefs, site, breaks) ==
    /\ sources[s] = name
    /\ \/ /\ apc[s] = "queued"
          /\ FreeWorker
          /\ \/ bs4_required(s)
             \/ /\ bs4
                /\ Request(s)
                /\ \/ /\ \E page \in pages :
                           LET links == Take(Dedupe(Links(page, hrefs, site)), count)
                           IN  IF links = <<>>
                               THEN AdapterReturn(s, <<>>)
                               ELSE /\ todo' = [todo EXCEPT ![s] = links]
                                    /\ apc' = [apc EXCEPT ![s] = "detail"]
                                    /\ acc' = acc
                      /\ UNCHANGED failed
                   \/ /\ LogError(s)
                      /\ AdapterReturn(s, <<>>)
       \/ /\ apc[s] = "detail"
          /\ Request(s)
          /\ \/ /\ \E d \in DetailPages :
                     LET out == IF d = <<>> THEN acc[s]
                                ELSE Append(acc[s], Asset(name, "video", <<title>>,
                                                          Absolute(site, d), <<".", "mp4">>))
                     IN  IF Len(todo[s]) = 1 \/ (breaks /\ Len(out) >= count)
                         THEN AdapterReturn(s, Take(out, count))
                         ELSE /\ acc' = [acc EXCEPT ![s] = out]
                              /\ todo' = [todo EXCEPT ![s] = Tail(@)]
                              /\ apc' = apc
                /\ UNCHANGED failed
             \/ /\ LogError(s)
                /\ AdapterReturn(s, Take(acc[s], count))
    /\ UNCHANGED <<sources, keys, bs4, count, yielded, gassets, gpc>>

\* lines 380-427
fetch_mixkit(s) ==
    DetailSearch(s, "mixkit", "mixkit-video", MixkitPages, MixkitHrefs,
                 "https://mixkit.co", FALSE)

\* lines 429-483
fetch_videvo(s) ==
    DetailSearch(s, "videvo", "videvo-video", VidevoPages, VidevoHrefs,
                 "https://www.videvo.net", TRUE)

\* lines 504-517 for a name in neither table: FETCHERS_SCRAPE[name] raises
\* KeyError inside the task
run_fetch_unknown(s) ==
    /\ apc[s] = "queued"
    /\ sources[s] \notin ALL_SOURCES
    /\ FreeWorker
    /\ apc' = [apc EXCEPT ![s] = "raised"]
    /\ UNCHANGED <<sources, keys, bs4, count, acc, todo, nreq, failed, yielded,
                   gassets, gpc>>

\* mutant of Consume: fut.result() outside a try, so a task's exception
\* leaves gather_assets
ConsumeNoCatch(s) ==
    /\ gpc = "running"
    /\ apc[s] \in {"returned", "raised"}
    /\ \A i \in DOMAIN yielded : yielded[i] # s
    /\ yielded' = Append(yielded, s)
    /\ gassets' = IF apc[s] = "returned" THEN gassets \o acc[s] ELSE gassets
    /\ gpc' = IF apc[s] = "raised" THEN "raised" ELSE gpc
    /\ UNCHANGED <<sources, keys, bs4, count, apc, acc, todo, nreq, failed>>

\* lines 521-528: as_completed yields a finished future; its result extends
\* assets, its exception is caught and logged
Consume(s) ==
    /\ gpc = "running"
    /\ apc[s] \in {"returned", "raised"}
    /\ \A i \in DOMAIN yielded : yielded[i] # s
    /\ yielded' = Append(yielded, s)
    /\ gassets' = IF apc[s] = "returned" THEN gassets \o acc[s] ELSE gassets
    /\ UNCHANGED <<sources, keys, bs4, count, apc, acc, todo, nreq, failed, gpc>>

\* line 529
GatherReturn ==
    /\ gpc = "running"
    /\ Len(yielded) = Len(sources)
    /\ gpc' = "returned"
    /\ UNCHANGED <<sources, keys, bs4, count, apc, acc, todo, nreq, failed,
                   yielded, gassets>>

\* no download_assets call is in progress
DownloadIdle ==
    /\ assets = <<>>
    /\ threads = 1
    /\ pc = <<>>
    /\ body = <<>>
    /\ digest = <<>>
    /\ fd = <<>>
    /\ off = <<>>
    /\ ret = <<>>
    /\ fs = <<>>
    /\ data = <<>>
    /\ results = <<>>
    /\ dlpc = "idle"

KeyValues == {None, "", "K"}

Requested(n) == \E s \in GTasks : sources[s] = n

\* the source lists are taken in one order of the names; the inputs that no
\* requested adapter reads (the key of another source, BS4_AVAILABLE and
\* count without a scraped source) are fixed
Rank(n) ==
    CHOOSE i \in 1..7 :
        <<"unsplash", "pexels", "pixabay", "coverr", "mixkit", "videvo", "bogus">>[i] = n

\* the arguments of a search: the source names, the keys, the items per
\* source, and whether bs4 could be imported
GatherInputs ==
    /\ sources \in UNION {[1..n -> SourceNames] : n \in 0..MaxSources}
    /\ \A i, j \in GTasks : i < j => Rank(sources[i]) <= Rank(sources[j])
    /\ keys \in [FETCHERS_API -> KeyValues]
    /\ \A n \in FETCHERS_API : Requested(n) \/ keys[n] = None
    /\ bs4 \in BOOLEAN
    /\ count \in 0..MaxCount
    /\ (\E n \in FETCHERS_SCRAPE : Requested(n)) \/ (bs4 /\ count = MaxCount)

\* gather_assets(sources, query, count, keys), lines 501-502 and 520
InitGather ==
    /\ GatherInputs
    /\ apc = [s \in GTasks |-> "queued"]
    /\ acc = [s \in GTasks |-> <<>>]
    /\ todo = [s \in GTasks |-> <<>>]
    /\ nreq = [s \in GTasks |-> 0]
    /\ failed = [s \in GTasks |-> FALSE]
    /\ yielded = <<>>
    /\ gassets = <<>>
    /\ gpc = "running"
    /\ DownloadIdle
    /\ RunIdle
    /\ TransportFolded

NextGather ==
    \/ \E s \in GTasks : fetch_unsplash(s) /\ UNCHANGED <<dvars, rvars, tvars>>
    \/ \E s \in GTasks : fetch_pexels(s) /\ UNCHANGED <<dvars, rvars, tvars>>
    \/ \E s \in GTasks : fetch_pixabay(s) /\ UNCHANGED <<dvars, rvars, tvars>>
    \/ \E s \in GTasks : fetch_coverr(s) /\ UNCHANGED <<dvars, rvars, tvars>>
    \/ \E s \in GTasks : fetch_mixkit(s) /\ UNCHANGED <<dvars, rvars, tvars>>
    \/ \E s \in GTasks : fetch_videvo(s) /\ UNCHANGED <<dvars, rvars, tvars>>
    \/ \E s \in GTasks : run_fetch_unknown(s) /\ UNCHANGED <<dvars, rvars, tvars>>
    \/ \E s \in GTasks : Consume(s) /\ UNCHANGED <<dvars, rvars, tvars>>
    \/ GatherReturn /\ UNCHANGED <<dvars, rvars, tvars>>

SpecGather == InitGather /\ [][NextGather]_vars

\* gather_assets over structured sources only
InitStructured ==
    /\ InitGather
    /\ \A s \in GTasks : sources[s] \in FETCHERS_API

NextStructured ==
    \/ \E s \in GTasks : fetch_unsplash(s) /\ UNCHANGED <<dvars, rvars, tvars>>
    \/ \E s \in GTasks : fetch_pexels(s) /\ UNCHANGED <<dvars, rvars, tvars>>
    \/ \E s \in GTasks : fetch_pixabay(s) /\ UNCHANGED <<dvars, rvars, tvars>>
    \/ \E s \in GTasks : Consume(s) /\ UNCHANGED <<dvars, rvars, tvars>>
    \/ GatherReturn /\ UNCHANGED <<dvars, rvars, tvars>>

SpecStructured == InitStructured /\ [][NextStructured]_vars

\* ---------------------------------------------- adapter and gather claims
\* C3 (as claimed): no two records of the list the adapters produce plan to
\* the same working path
C3_DistinctWorkingPaths ==
    \A i, j \in DOMAIN gassets :
        i < j => plan_path(gassets[i]) # plan_path(gassets[j])

\* the lists of the tasks ys, in that order, a task that raised giving none
RECURSIVE Merged(_)
Merged(ys) ==
    IF ys = <<>> THEN <<>>
    ELSE (IF apc[Head(ys)] = "returned" THEN acc[Head(ys)] ELSE <<>>)
         \o Merged(Tail(ys))

\* C7: gather_assets never raises; its list is the lists of the adapters
\* that returned, in the order the tasks completed, a task that raised
\* adding nothing; and it returns once every task was taken exactly once
C7_GatherIsolates ==
    /\ gpc # "raised"
    /\ gassets = Merged(yielded)
    /\ gpc = "returned" =>
          /\ Len(yielded) = Len(sources)
          /\ \A s \in GTasks : \E i \in DOMAIN yielded : yielded[i] = s

\* one task raised, another returned records, and gather_assets returned
C7_Witness ==
    /\ gpc = "returned"
    /\ \E s \in GTasks : apc[s] = "raised"
    /\ \E s \in GTasks : apc[s] = "returned" /\ acc[s] # <<>>
    /\ gassets # <<>>

\* C8 (as claimed): no adapter call ends by raising
C8_AdaptersNeverRaise ==
    \A s \in GTasks : sources[s] \in ALL_SOURCES => apc[s] # "raised"

\* C9 (as claimed): an adapter that hit an error returns the empty sequence
C9_ErrorMeansEmpty ==
    \A s \in GTasks : (apc[s] = "returned" /\ failed[s]) => acc[s] = <<>>

\* C10: a structured adapter given no key (None or empty) issues no request
\* and returns the empty sequence
C10_NoKeyNoRequest ==
    \A s \in GTasks :
        (sources[s] \in FETCHERS_API /\ keys[sources[s]] \in {None, ""})
            => /\ nreq[s] = 0
               /\ acc[s] = <<>>
               /\ apc[s] \in {"queued", "returned"}

C10_Witness ==
    \E s, u \in GTasks :
        /\ sources[s] \in FETCHERS_API /\ keys[sources[s]] = "" /\ apc[s] = "returned"
        /\ sources[u] \in FETCHERS_API /\ keys[sources[u]] = None /\ apc[u] = "returned"

\* C11 (as claimed): every record an adapter emits, and so every record of
\* the list gather_assets hands on, has a non-empty download_url and a kind
\* that is image or video
C11_RecordsWellFormed ==
    /\ \A s \in GTasks : apc[s] = "returned" =>
          \A i \in DOMAIN acc[s] :
              acc[s][i].download_url # <<>> /\ acc[s][i].kind \in {"image", "video"}
    /\ \A i \in DOMAIN gassets :
          gassets[i].download_url # <<>> /\ gassets[i].kind \in {"image", "video"}

\* the records the video search of task s adds to its list in this step
VideoRecords(s) == SubSeq(acc'[s], Len(acc[s]) + 1, Len(acc'[s]))

\* this step is the video search of task s answering without an error
VideoSearchDone(s) ==
    apc[s] = "videos" /\ apc'[s] = "returned" /\ ~failed'[s]

\* file f ranks at least as high as file g: the "hd" flag first, then width
RanksAtLeast(f, g) ==
    LET hf == IF f.quality = "hd" THEN 1 ELSE 0
        hg == IF g.quality = "hd" THEN 1 ELSE 0
    IN  hg < hf \/ (hg = hf /\ g.width <= f.width)

\* an upstream Pexels video that lists files; an upstream Pixabay hit that
\* holds one of the variants large, medium, small
HasFiles(v) == v.video_files # <<>>
HasVariant(h) == \E i \in DOMAIN h.videos : h.videos[i] # <<>>

\* C21: a structured adapter emits one record per upstream video that offers
\* variants, and its URL is that of the best variant: for Pexels a file no
\* other file of the video outranks by ("hd" flag, then width), for Pixabay
\* the large variant if present, else medium, else small
C21_BestVariant ==
    [][\A s \in GTasks : VideoSearchDone(s) =>
          /\ sources[s] = "pexels" =>
                \E r \in PexelsVideoResponses :
                    LET items == SelectSeq(r, HasFiles)
                    IN  /\ Len(VideoRecords(s)) = Len(items)
                        /\ \A i \in DOMAIN items :
                              \E k \in DOMAIN items[i].video_files :
                                  LET f == items[i].video_files[k]
                                  IN  /\ VideoRecords(s)[i].download_url = f.link
                                      /\ VideoRecords(s)[i].title = IdTitle("pexels", items[i].id)
                                      /\ \A j \in DOMAIN items[i].video_files :
                                            RanksAtLeast(f, items[i].video_files[j])
          /\ sources[s] = "pixabay" =>
                \E r \in PixabayVideoResponses :
                    LET items == SelectSeq(r, HasVariant)
                    IN  /\ Len(VideoRecords(s)) = Len(items)
                        /\ \A i \in DOMAIN items :
                              LET v == items[i].videos
                                  want == IF v[1] # <<>> THEN v[1]
                                          ELSE IF v[2] # <<>> THEN v[2] ELSE v[3]
                              IN  /\ VideoRecords(s)[i].download_url = want[1]
                                  /\ VideoRecords(s)[i].title = IdTitle("pixabay", items[i].id)
      ]_vars

\* a Pexels task emitted the wider of two "hd" files, passing over a wider
\* file without the flag, and a Pixabay task emitted the medium variant of a
\* video that has no large one
C21_Witness ==
    \E s, u \in GTasks :
        /\ sources[s] = "pexels" /\ apc[s] = "returned" /\ ~failed[s]
        /\ \E i \in DOMAIN acc[s] :
              acc[s][i].kind = "video" /\ acc[s][i].download_url = F4.link
        /\ sources[u] = "pixabay" /\ apc[u] = "returned" /\ ~failed[u]
        /\ \E i \in DOMAIN acc[u] :
              acc[u][i].kind = "video" /\ acc[u][i].download_url = <<"u5">>

\* C22 (as claimed): a scraped adapter holds and returns at most count
\* records, and Mixkit and Videvo issue at most count detail requests after
\* the request for the search page
C22_ScrapedStopAtCount ==
    \A s \in GTasks :
        /\ sources[s] \in FETCHERS_SCRAPE => Len(acc[s]) <= count
        /\ sources[s] \in {"mixkit", "videvo"} => nreq[s] <= 1 + count

\* ----------------------------------------------------------- run_app_logic
\* the headless run (args.gui false): lines 732-769 and 775-782
\* os.makedirs raises OSError; the caller has no handler for it
MakedirsRaises == rpc' = "raised"

\* line 747: the requested names that are sources
RECURSIVE ValidSources(_)
ValidSources(names) ==
    IF names = <<>> THEN <<>>
    ELSE (IF Head(names) \in ALL_SOURCES THEN <<Head(names)>> ELSE <<>>)
         \o ValidSources(Tail(names))

\* lines 734-761: the output directory, the source list, then gather_assets
\* is called with srcs
RunStart ==
    /\ rpc = "start"
    /\ \/ /\ MakedirsRaises
          /\ UNCHANGED gvars
       \/ /\ ValidSources(sources) = <<>>
          /\ rpc' = "nosources"
          /\ UNCHANGED gvars
       \/ LET srcs == ValidSources(sources)
          IN  /\ srcs # <<>>
              /\ rpc' = "gather"
              /\ sources' = srcs
              /\ apc' = [s \in DOMAIN srcs |-> "queued"]
              /\ acc' = [s \in DOMAIN srcs |-> <<>>]
              /\ todo' = [s \in DOMAIN srcs |-> <<>>]
              /\ nreq' = [s \in DOMAIN srcs |-> 0]
              /\ failed' = [s \in DOMAIN srcs |-> FALSE]
              /\ gpc' = "running"
              /\ UNCHANGED <<keys, bs4, count, yielded, gassets>>
    /\ UNCHANGED <<dvars, mfile, tvars>>

\* gather_assets has returned: its frame is gone, its list is in `assets`
GatherFrameGone ==
    /\ sources' = <<>>
    /\ keys' = [n \in FETCHERS_API |-> None]
    /\ bs4' = TRUE
    /\ count' = 0
    /\ apc' = <<>>
    /\ acc' = <<>>
    /\ todo' = <<>>
    /\ nreq' = <<>>
    /\ failed' = <<>>
    /\ yielded' = <<>>
    /\ gassets' = <<>>
    /\ gpc' = "idle"

\* mutant of RunGathered: the downloads start on the records gathered so
\* far, while adapter tasks are still running
RunGatheredEarly ==
    /\ rpc = "gather"
    /\ gassets # <<>>
    /\ Len(gassets) <= MaxAssets
    /\ rpc' = "download"
    /\ assets' = gassets
    /\ threads' \in 1..MaxThreads
    /\ pc' = [t \in DOMAIN gassets |-> "queued"]
    /\ body' = [t \in DOMAIN gassets |-> <<>>]
    /\ digest' = [t \in DOMAIN gassets |-> <<>>]
    /\ fd' = [t \in DOMAIN gassets |-> 0]
    /\ off' = [t \in DOMAIN gassets |-> 0]
    /\ ret' = [t \in DOMAIN gassets |-> [ok |-> FALSE, sha1 |-> NoDigest]]
    /\ data' = [t \in DOMAIN gassets |-> <<>>]
    /\ dlpc' = "running"
    /\ UNCHANGED <<fs, results, gvars, mfile, tvars>>

\* lines 761-776 and 546-547: gather_assets returned; without assets the run
\* returns, otherwise download_assets is called with them (runs with more
\* than MaxAssets records are not followed further)
RunGathered ==
    /\ rpc = "gather"
    /\ gpc = "returned"
    /\ \/ /\ gassets = <<>>
          /\ rpc' = "noassets"
          /\ UNCHANGED dvars
       \/ /\ gassets # <<>>
          /\ MakedirsRaises    \* ensure_dirs(base), line 546
          /\ UNCHANGED dvars
       \/ /\ gassets # <<>>
          /\ Len(gassets) <= MaxAssets
          /\ rpc' = "download"
          /\ assets' = gassets
          /\ threads' \in 1..MaxThreads
          /\ pc' = [t \in DOMAIN gassets |-> "queued"]
          /\ body' = [t \in DOMAIN gassets |-> <<>>]
          /\ digest' = [t \in DOMAIN gassets |-> <<>>]
          /\ fd' = [t \in DOMAIN gassets |-> 0]
          /\ off' = [t \in DOMAIN gassets |-> 0]
          /\ ret' = [t \in DOMAIN gassets |-> [ok |-> FALSE, sha1 |-> NoDigest]]
          /\ data' = [t \in DOMAIN gassets |-> <<>>]
          /\ dlpc' = "running"
          /\ UNCHANGED <<fs, results>>
    /\ GatherFrameGone
    /\ UNCHANGED <<mfile, tvars>>

\* mutant of write_manifest: no try around the body, so a failure to create
\* the directories or to open the file leaves the function
write_manifest_no_try(next) ==
    \/ mfile' = mfile /\ rpc' = "raised"
    \/ mfile' = [state |-> "partial", results |-> <<>>] /\ rpc' = "raised"
    \/ mfile' = [state |-> "written", results |-> results] /\ rpc' = next

\* lines 148-156, with `next` where the caller goes on: ensure_dirs or open
\* raises and nothing is written; json.dump raises on the opened, truncated
\* file; or the manifest is written. The except clause logs either failure
write_manifest(next) ==
    /\ \/ mfile' = mfile
       \/ mfile' = [state |-> "partial", results |-> <<>>]
       \/ mfile' = [state |-> "written", results |-> results]
    /\ rpc' = next

\* line 780: okc = sum(1 for r in results if r.get("ok"))
okc == Cardinality({i \in DOMAIN results : results[i].ok})

\* lines 777-782: download_assets returned; the manifest, then the counts
RunManifest ==
    /\ rpc = "download"
    /\ dlpc = "returned"
    /\ write_manifest("finished")
    /\ UNCHANGED <<dvars, gvars, tvars>>

\* run_app_logic(args) is entered: args.sources, the keys, args.items
InitRun ==
    /\ GatherInputs
    /\ apc = [s \in GTasks |-> "unsubmitted"]
    /\ acc = [s \in GTasks |-> <<>>]
    /\ todo = [s \in GTasks |-> <<>>]
    /\ nreq = [s \in GTasks |-> 0]
    /\ failed = [s \in GTasks |-> FALSE]
    /\ yielded = <<>>
    /\ gassets = <<>>
    /\ gpc = "idle"
    /\ DownloadIdle
    /\ rpc = "start"
    /\ mfile = NoManifest
    /\ TransportFolded

NextRun ==
    \/ RunStart
    \/ \E s \in GTasks : fetch_unsplash(s) /\ UNCHANGED <<dvars, rvars, tvars>>
    \/ \E s \in GTasks : fetch_pexels(s) /\ UNCHANGED <<dvars, rvars, tvars>>
    \/ \E s \in GTasks : fetch_pixabay(s) /\ UNCHANGED <<dvars, rvars, tvars>>
    \/ \E s \in GTasks : fetch_coverr(s) /\ UNCHANGED <<dvars, rvars, tvars>>
    \/ \E s \in GTasks : fetch_mixkit(s) /\ UNCHANGED <<dvars, rvars, tvars>>
    \/ \E s \in GTasks : fetch_videvo(s) /\ UNCHANGED <<dvars, rvars, tvars>>
    \/ \E s \in GTasks : Consume(s) /\ UNCHANGED <<dvars, rvars, tvars>>
    \/ GatherReturn /\ UNCHANGED <<dvars, rvars, tvars>>
    \/ RunGathered
    \/ NextDownload
    \/ RunManifest

SpecRun == InitRun /\ [][NextRun]_vars

\* the tail of a run on its own, which is also PreviewGUI.download_selected,
\* lines 724-726: download_assets over the records given, then
\* write_manifest with its results
InitSelected ==
    /\ DownloadCall
    /\ GatherIdle
    /\ rpc = "download"
    /\ mfile = NoManifest
    /\ TransportFolded

NextSelected == NextDownload \/ RunManifest

SpecSelected == InitSelected /\ [][NextSelected]_vars

\* ---------------------------------------------------- run_app_logic claims
\* a download task has started, a file is in the output directory, or
\* download_assets has been called
DownloadBegun ==
    \/ dlpc # "idle"
    \/ Paths # {}
    \/ \E t \in Tasks : pc[t] # "queued"

\* C16: nothing of the download phase happens before every adapter task has
\* completed and gather_assets has returned
C16_PhaseBarrier ==
    /\ DownloadBegun =>
          /\ rpc \in {"download", "finished"}
          /\ gpc # "running"
          /\ \A s \in GTasks : apc[s] \in {"returned", "raised"}
    /\ (rpc \in {"start", "gather"} \/ gpc = "running") => ~DownloadBegun

\* a download streams a body in a run whose search has returned records
C16_Witness ==
    /\ rpc = "download"
    /\ gpc = "idle"
    /\ \E t \in Tasks : pc[t] = "stream" /\ tmp_path(t) \in Paths

\* C18 (as claimed): a run that got as far as gather_assets ends with the
\* manifest written, holding the outcomes of the run
C18_ManifestAlways ==
    rpc \in {"noassets", "finished"} =>
        mfile = [state |-> "written", results |-> results]

\* C19: the write_manifest step after the downloads does not raise, whether or not the
\* manifest gets written, and changes neither the downloaded files nor the
\* outcomes
C19_ManifestNeverRaises ==
    [][(rpc = "download" /\ rpc' # "download")
          => /\ rpc' = "finished"
             /\ fs' = fs
             /\ data' = data
             /\ results' = results]_vars

\* the run finished after a failed manifest write, the downloaded file is
\* in place
C19_Witness ==
    /\ rpc = "finished"
    /\ mfile.state # "written"
    /\ FinalFiles # {}
    /\ \E i \in DOMAIN results : results[i].ok

\* ------------------------------------------------------------ the two pools
\* one call of download_assets or one call of gather_assets, with the pool's
\* threads and the main thread running whenever they can take a step: every
\* request answers or times out (Get, Request), so no step waits for ever
InitPools == InitDownload \/ InitGather

NextPools == NextDownload \/ NextGather

FairPools == InitPools /\ [][NextPools]_vars /\ WF_vars(NextPools)

\* download_assets has returned, with every task's future taken once
DownloadDone ==
    /\ dlpc = "returned"
    /\ \A t \in Tasks : pc[t] \in {"collected", "dropped"}
    /\ Len(results) = Cardinality({t \in Tasks : pc[t] = "collected"})

\* gather_assets has returned, with every task's future taken once
GatherDone ==
    /\ gpc = "returned"
    /\ \A s \in GTasks : apc[s] \in {"returned", "raised"}
    /\ Len(yielded) = Len(sources)
    /\ \A s \in GTasks : \E i \in DOMAIN yielded : yielded[i] = s

\* C17: every call of download_assets and of gather_assets comes to its
\* return, all its tasks completed and each outcome consumed once
C17_PoolsTerminate == <>(DownloadDone \/ GatherDone)

\* download_assets returned after one task succeeded and another failed
C17_Witness ==
    /\ DownloadDone
    /\ \E t, u \in Tasks : /\ pc[t] = "collected" /\ ret[t].ok
                           /\ pc[u] = "collected" /\ ~ret[u].ok

====
